---- MODULE Spec2Model ----
(***************************************************************************)
(* The CSS selector builder of src/src/05-objects-tasks.js: the class      *)
(* CreateSelector, the constructor Combinator and the facade               *)
(* cssSelectorBuilder, as a state machine over a heap of objects.          *)
(*                                                                         *)
(* JavaScript values are tagged records [t, v]: null, a string, an array   *)
(* of strings.  Objects live in `heap`, a sequence indexed by the object's *)
(* identity (its allocation number); a reference is that number.           *)
(*                                                                         *)
(* Three specifications bound the callers: Spec builds and renders one     *)
(* selector, PairSpec two selectors with interleaved calls, CombineSpec    *)
(* combines selectors and keeps calling the operands.                      *)
(***************************************************************************)
EXTENDS Integers, Sequences, FiniteSets, TLC

\* The number of successful constructions (facade calls, chained fragment
\* calls, combine calls) a behaviour makes.
MaxOps == 4

\* The strings callers pass as fragment values.
Values == {"", "a", "b"}

\* The strings callers pass to combine as the combinator: two of the four
\* CSS combinators and one string that is none of them.
Tokens == {" ", "+", "x"}

VARIABLES
  heap,   \* the objects constructed so far (CreateSelector and Combinator instances)
  ret,    \* what the last call returned or threw
  hist    \* history: per selector, the <<kind, value>> of each call that succeeded
          \* on it; per combined selector, the arguments of its combine call, the
          \* operands' history lengths then, and its first rendering

vars == <<heap, ret, hist>>

-----------------------------------------------------------------------------
(* JavaScript values *)

Null == [t |-> "null", v |-> ""]
Str(s) == [t |-> "string", v |-> s]
Arr(a) == [t |-> "array", v |-> a]

\* ToBoolean: null and the empty string are falsy, every array is truthy.
Truthy(x) == ~(x.t = "null" \/ (x.t = "string" /\ x.v = ""))

\* Array.prototype.unshift in the place of push.
push_AtFront(arr, x) == Arr(<<x>> \o arr.v)

\* Array.prototype.push
push(arr, x) == Arr(Append(arr.v, x))

\* Array.prototype.indexOf: the first index (from 0) holding x, else -1.
indexOf(arr, x) ==
  IF \E i \in 1..Len(arr) : arr[i] = x
  THEN (CHOOSE i \in 1..Len(arr) : arr[i] = x /\ \A j \in 1..(i - 1) : arr[j] # x) - 1
  ELSE -1

-----------------------------------------------------------------------------
(* class CreateSelector *)

OrderViolation ==
  "Selector parts should be arranged in the following order: element, id, class, attribute, pseudo-class, pseudo-element"

DuplicateSingletonError ==
  "Element, id and pseudo-element should not occur more then one time inside the selector"

positionsElements == <<"element", "id", "class", "attr", "pseudoClass", "pseudoElement">>

\* A constructor that starts the selector at the first category instead of
\* before all of them.
CreateSelector_StartsAtElement ==
  [type |-> "CreateSelector",
   settings |-> [element |-> Null, id |-> Null, class |-> Arr(<<>>), attr |-> Arr(<<>>),
                 pseudoClass |-> Arr(<<>>), pseudoElement |-> Null],
   lastElement |-> "element"]

\* constructor()
CreateSelector ==
  [type |-> "CreateSelector",
   settings |-> [element |-> Null, id |-> Null, class |-> Arr(<<>>), attr |-> Arr(<<>>),
                 pseudoClass |-> Arr(<<>>), pseudoElement |-> Null],
   lastElement |-> ""]

\* The outcome of a method: the receiver as the method leaves it, and the
\* message of the Error it threw ("" when it returned).
Return(this) == [this |-> this, thrown |-> ""]
Throw(this, msg) == [this |-> this, thrown |-> msg]

\* position without its first check.
position_NoOrderCheck(this, elPosition) ==
  IF /\ elPosition \in {"element", "id", "pseudoElement"}
     /\ indexOf(positionsElements, elPosition) = indexOf(positionsElements, this.lastElement)
  THEN Throw(this, DuplicateSingletonError)
  ELSE Return([this EXCEPT !.lastElement = elPosition])

\* position without its second check.
position_NoDuplicateCheck(this, elPosition) ==
  IF indexOf(positionsElements, elPosition) < indexOf(positionsElements, this.lastElement)
  THEN Throw(this, OrderViolation)
  ELSE Return([this EXCEPT !.lastElement = elPosition])

\* position with <= for < in its first check.
position_StrictOrder(this, elPosition) ==
  IF indexOf(positionsElements, elPosition) <= indexOf(positionsElements, this.lastElement)
  THEN Throw(this, OrderViolation)
  ELSE IF /\ elPosition \in {"element", "id", "pseudoElement"}
          /\ indexOf(positionsElements, elPosition) = indexOf(positionsElements, this.lastElement)
       THEN Throw(this, DuplicateSingletonError)
       ELSE Return([this EXCEPT !.lastElement = elPosition])

\* position with its second check applied to every kind.
position_DuplicateAnyKind(this, elPosition) ==
  IF indexOf(positionsElements, elPosition) < indexOf(positionsElements, this.lastElement)
  THEN Throw(this, OrderViolation)
  ELSE IF indexOf(positionsElements, elPosition) = indexOf(positionsElements, this.lastElement)
       THEN Throw(this, DuplicateSingletonError)
       ELSE Return([this EXCEPT !.lastElement = elPosition])

\* position recording the kind before its checks throw.
position_RecordsBeforeThrow(this, elPosition) ==
  LET set == [this EXCEPT !.lastElement = elPosition] IN
  IF indexOf(positionsElements, elPosition) < indexOf(positionsElements, this.lastElement)
  THEN Throw(set, OrderViolation)
  ELSE IF /\ elPosition \in {"element", "id", "pseudoElement"}
          /\ indexOf(positionsElements, elPosition) = indexOf(positionsElements, this.lastElement)
       THEN Throw(set, DuplicateSingletonError)
       ELSE Return(set)

position(this, elPosition) ==
  IF indexOf(positionsElements, elPosition) < indexOf(positionsElements, this.lastElement)
  THEN Throw(this, OrderViolation)
  ELSE IF /\ elPosition \in {"element", "id", "pseudoElement"}
          /\ indexOf(positionsElements, elPosition) = indexOf(positionsElements, this.lastElement)
       THEN Throw(this, DuplicateSingletonError)
       ELSE Return([this EXCEPT !.lastElement = elPosition])

\* element storing its value before it calls position.
element_AssignsFirst(this, value) ==
  LET set == [this EXCEPT !.settings.element = Str(value)]
      p == position(set, "element")
  IN IF p.thrown # "" THEN p ELSE Return(p.this)

element(this, value) ==
  LET p == position(this, "element") IN
  IF p.thrown # "" THEN p ELSE Return([p.this EXCEPT !.settings.element = Str(value)])

id(this, value) ==
  LET p == position(this, "id") IN
  IF p.thrown # "" THEN p ELSE Return([p.this EXCEPT !.settings.id = Str(value)])

class(this, className) ==
  LET p == position(this, "class") IN
  IF p.thrown # "" THEN p
  ELSE Return([p.this EXCEPT !.settings.class = push(p.this.settings.class, className)])

attr(this, value) ==
  LET p == position(this, "attr") IN
  IF p.thrown # "" THEN p
  ELSE Return([p.this EXCEPT !.settings.attr = push(p.this.settings.attr, value)])

pseudoClass(this, value) ==
  LET p == position(this, "pseudoClass") IN
  IF p.thrown # "" THEN p
  ELSE Return([p.this EXCEPT !.settings.pseudoClass = push(p.this.settings.pseudoClass, value)])

pseudoElement(this, value) ==
  LET p == position(this, "pseudoElement") IN
  IF p.thrown # "" THEN p ELSE Return([p.this EXCEPT !.settings.pseudoElement = Str(value)])

\* Object.values of a settings object created with id before element.
ObjectValues_IdFirst(d) == <<d.id, d.element, d.class, d.attr, d.pseudoClass, d.pseudoElement>>

\* Object.values(d): the values of d's own properties in creation order.
ObjectValues(d) == <<d.element, d.id, d.class, d.attr, d.pseudoClass, d.pseudoElement>>

before == <<"", "#", ".", "[", ":", "::">>
after == <<"", "", "", "]", "", "">>

\* element.reduce((prev, current) => prev + before[i] + current + after[i], '')
RECURSIVE reduce(_, _, _)
reduce(arr, i, prev) ==
  IF arr = <<>> THEN prev
  ELSE reduce(Tail(arr), i, prev \o before[i] \o Head(arr) \o after[i])

\* One turn of stringify's loop, for the index i (from 1 here).
StringifyPart(d, i) ==
  LET selec == ObjectValues(d)[i]
      el0 == IF Truthy(selec) THEN selec ELSE Arr(<<>>)
      el1 == IF el0.t # "array" /\ el0.t # "null" THEN Arr(<<el0.v>>) ELSE el0
  IN reduce(el1.v, i, "")

RECURSIVE StringifyLoop(_, _, _)
StringifyLoop(d, i, str) ==
  IF i > Len(before) THEN str
  ELSE StringifyLoop(d, i + 1, str \o StringifyPart(d, i))

CreateSelector_stringify(this) == StringifyLoop(this.settings, 1, "")

-----------------------------------------------------------------------------
(* function Combinator and Combinator.prototype *)

\* Combinator keeping the combinator with the spaces around it.
Combinator_Padded(selector1, combinator, selector2) ==
  [type |-> "Combinator",
   selectors |-> [s1 |-> selector1, comb |-> " " \o combinator \o " ", s2 |-> selector2]]

Combinator(selector1, combinator, selector2) ==
  [type |-> "Combinator", selectors |-> [s1 |-> selector1, comb |-> combinator, s2 |-> selector2]]

\* The template without its spaces.
CombinatorTemplate_NoSpaces(s1, comb, s2) == s1 \o comb \o s2

\* `${s1} ${comb} ${s2}` of the operands' renderings.
CombinatorTemplate(s1, comb, s2) == s1 \o " " \o comb \o " " \o s2

\* o.stringify() for the object o of heap h, by o's class.
RECURSIVE stringify(_, _)
stringify(h, o) ==
  IF h[o].type = "CreateSelector" THEN CreateSelector_stringify(h[o])
  ELSE CombinatorTemplate(stringify(h, h[o].selectors.s1), h[o].selectors.comb,
                          stringify(h, h[o].selectors.s2))

-----------------------------------------------------------------------------
(* the state machine *)

Objects == 1..Len(heap)
Selectors == {o \in Objects : heap[o].type = "CreateSelector"}
Combinators == {o \in Objects : heap[o].type = "Combinator"}

Ref(o) == [t |-> "ref", v |-> o]
Thrown(msg) == [t |-> "throw", v |-> msg]

Init ==
  /\ heap = <<>>
  /\ ret = [t |-> "none", v |-> ""]
  /\ hist = <<>>

\* The successful constructions made so far.
RECURSIVE Work(_)
Work(hs) == IF hs = <<>> THEN 0 ELSE Len(Head(hs)) + Work(Tail(hs))

\* The outcome of this.<K>(value).
Method(K, this, value) ==
  CASE K = "element" -> element(this, value)
    [] K = "id" -> id(this, value)
    [] K = "class" -> class(this, value)
    [] K = "attr" -> attr(this, value)
    [] K = "pseudoClass" -> pseudoClass(this, value)
    [] K = "pseudoElement" -> pseudoElement(this, value)

\* The facade of a builder that keeps one instance and hands it out again.
New_SharedInstance(kind, value, r) ==
  /\ Work(hist) < MaxOps
  /\ IF heap = <<>>
     THEN /\ heap' = Append(heap, r.this)
          /\ hist' = Append(hist, <<<<kind, value>>>>)
          /\ ret' = Ref(Len(heap) + 1)
     ELSE LET again == Method(kind, heap[1], value) IN
          /\ heap' = [heap EXCEPT ![1] = again.this]
          /\ hist' = IF again.thrown # "" THEN hist
                     ELSE [hist EXCEPT ![1] = Append(@, <<kind, value>>)]
          /\ ret' = IF again.thrown # "" THEN Thrown(again.thrown) ELSE Ref(1)

\* new CreateSelector().<kind>(value), r the outcome of the method on the new object.
New(kind, value, r) ==
  /\ Work(hist) < MaxOps
  /\ IF r.thrown # ""
     THEN /\ ret' = Thrown(r.thrown)
          /\ UNCHANGED <<heap, hist>>
     ELSE /\ heap' = Append(heap, r.this)
          /\ hist' = Append(hist, <<<<kind, value>>>>)
          /\ ret' = Ref(Len(heap) + 1)

\* A call that leaves its receiver alone and returns a copy holding the new fragment.
Chain_ReturnsCopy(o, kind, value, r) ==
  IF r.thrown # ""
  THEN /\ ret' = Thrown(r.thrown)
       /\ UNCHANGED <<heap, hist>>
  ELSE /\ Work(hist) < MaxOps
       /\ heap' = Append(heap, r.this)
       /\ hist' = Append(hist, Append(hist[o], <<kind, value>>))
       /\ ret' = Ref(Len(heap) + 1)

\* o.<kind>(value) on a selector already built, r the outcome of the method.
Chain(o, kind, value, r) ==
  /\ heap' = [heap EXCEPT ![o] = r.this]
  /\ IF r.thrown # ""
     THEN /\ ret' = Thrown(r.thrown)
          /\ UNCHANGED hist
     ELSE /\ Work(hist) < MaxOps
          /\ hist' = [hist EXCEPT ![o] = Append(@, <<kind, value>>)]
          /\ ret' = Ref(o)

cssSelectorBuilder_element(value) == New("element", value, element(CreateSelector, value))
cssSelectorBuilder_id(value) == New("id", value, id(CreateSelector, value))
cssSelectorBuilder_class(value) == New("class", value, class(CreateSelector, value))
cssSelectorBuilder_attr(value) == New("attr", value, attr(CreateSelector, value))
cssSelectorBuilder_pseudoClass(value) == New("pseudoClass", value, pseudoClass(CreateSelector, value))
cssSelectorBuilder_pseudoElement(value) == New("pseudoElement", value, pseudoElement(CreateSelector, value))

Call_element(o, value) == Chain(o, "element", value, element(heap[o], value))
Call_id(o, value) == Chain(o, "id", value, id(heap[o], value))
Call_class(o, value) == Chain(o, "class", value, class(heap[o], value))
Call_attr(o, value) == Chain(o, "attr", value, attr(heap[o], value))
Call_pseudoClass(o, value) == Chain(o, "pseudoClass", value, pseudoClass(heap[o], value))
Call_pseudoElement(o, value) == Chain(o, "pseudoElement", value, pseudoElement(heap[o], value))

\* A stringify that starts its selector afresh once rendered.
Call_stringify_Resets(o) ==
  /\ ret' = Str(stringify(heap, o))
  /\ heap' = [heap EXCEPT ![o] = IF @.type = "CreateSelector" THEN CreateSelector ELSE @]
  /\ UNCHANGED hist

\* o.stringify()
Call_stringify(o) ==
  /\ ret' = Str(stringify(heap, o))
  /\ UNCHANGED <<heap, hist>>

\* cssSelectorBuilder.combine(selector1, combinator, selector2)
cssSelectorBuilder_combine(selector1, combinator, selector2) ==
  /\ Work(hist) < MaxOps
  /\ heap' = Append(heap, Combinator(selector1, combinator, selector2))
  /\ hist' = Append(hist, <<[s1 |-> selector1, comb |-> combinator, s2 |-> selector2,
                             sizes |-> [o \in Objects |-> Len(hist[o])],
                             str |-> stringify(heap', Len(heap) + 1)]>>)
  /\ ret' = Ref(Len(heap) + 1)

\* One caller building one selector of at most MaxOps fragments, and rendering it.
Next ==
  \/ \E value \in Values : heap = <<>> /\ cssSelectorBuilder_element(value)
  \/ \E value \in Values : heap = <<>> /\ cssSelectorBuilder_id(value)
  \/ \E value \in Values : heap = <<>> /\ cssSelectorBuilder_class(value)
  \/ \E value \in Values : heap = <<>> /\ cssSelectorBuilder_attr(value)
  \/ \E value \in Values : heap = <<>> /\ cssSelectorBuilder_pseudoClass(value)
  \/ \E value \in Values : heap = <<>> /\ cssSelectorBuilder_pseudoElement(value)
  \/ \E o \in Selectors, value \in Values : Call_element(o, value)
  \/ \E o \in Selectors, value \in Values : Call_id(o, value)
  \/ \E o \in Selectors, value \in Values : Call_class(o, value)
  \/ \E o \in Selectors, value \in Values : Call_attr(o, value)
  \/ \E o \in Selectors, value \in Values : Call_pseudoClass(o, value)
  \/ \E o \in Selectors, value \in Values : Call_pseudoElement(o, value)
  \/ \E o \in Objects : Call_stringify(o)

Spec == Init /\ [][Next]_vars

\* The fragment values of the callers that build two selectors.
PairValues == {"a"}

\* Callers building two selectors, their calls interleaved.
PairNext ==
  \/ \E value \in PairValues : Len(heap) < 2 /\ cssSelectorBuilder_element(value)
  \/ \E value \in PairValues : Len(heap) < 2 /\ cssSelectorBuilder_id(value)
  \/ \E value \in PairValues : Len(heap) < 2 /\ cssSelectorBuilder_class(value)
  \/ \E value \in PairValues : Len(heap) < 2 /\ cssSelectorBuilder_attr(value)
  \/ \E value \in PairValues : Len(heap) < 2 /\ cssSelectorBuilder_pseudoClass(value)
  \/ \E value \in PairValues : Len(heap) < 2 /\ cssSelectorBuilder_pseudoElement(value)
  \/ \E o \in Selectors, value \in PairValues : Call_element(o, value)
  \/ \E o \in Selectors, value \in PairValues : Call_id(o, value)
  \/ \E o \in Selectors, value \in PairValues : Call_class(o, value)
  \/ \E o \in Selectors, value \in PairValues : Call_attr(o, value)
  \/ \E o \in Selectors, value \in PairValues : Call_pseudoClass(o, value)
  \/ \E o \in Selectors, value \in PairValues : Call_pseudoElement(o, value)
  \/ \E o \in Objects : Call_stringify(o)

PairSpec == Init /\ [][PairNext]_vars

\* The fragment values of the caller that combines selectors.
CombineValues == {"a", "b"}

\* A caller combining up to two selectors built of elements, ids and classes,
\* and still calling the operands' methods afterwards; one construction fewer
\* than MaxOps in all.
CombineNext ==
  \/ \E value \in CombineValues :
       Cardinality(Selectors) < 2 /\ Work(hist) + 1 < MaxOps /\ cssSelectorBuilder_element(value)
  \/ \E value \in CombineValues :
       Cardinality(Selectors) < 2 /\ Work(hist) + 1 < MaxOps /\ cssSelectorBuilder_class(value)
  \/ \E o \in Selectors, value \in CombineValues : Call_element(o, value) /\ Work(hist') < MaxOps
  \/ \E o \in Selectors, value \in CombineValues : Call_id(o, value) /\ Work(hist') < MaxOps
  \/ \E o \in Selectors, value \in CombineValues : Call_class(o, value) /\ Work(hist') < MaxOps
  \/ \E o \in Objects : Call_stringify(o)
  \/ \E s1 \in Objects, comb \in Tokens, s2 \in Objects :
       Work(hist) + 1 < MaxOps /\ cssSelectorBuilder_combine(s1, comb, s2)

CombineSpec == Init /\ [][CombineNext]_vars

-----------------------------------------------------------------------------
(* getJSON and fromJSON *)

\* The longest array, and the most keys of an object, among the values serialized.
MaxLen == 2

\* JSON values: null and the primitives, arrays of values, and objects as the
\* sequence of their own <<key, value>> properties in enumeration order.
Bool(b) == [t |-> "boolean", v |-> b]
Num(n) == [t |-> "number", v |-> n]
Obj(props) == [t |-> "object", v |-> props]

Numbers == {0, 1}
Keys == {"k", "w"}
Scalars == {Null, Bool(TRUE), Bool(FALSE), Str(""), Str("a")} \cup {Num(n) : n \in Numbers}
Elems == Scalars \cup {Arr(<<>>), Obj(<<>>), Arr(<<Num(1)>>), Obj(<<<<"k", Str("a")>>>>)}
SeqsUpTo(S, n) == UNION {[1..k -> S] : k \in 0..n}
KeySeqs == {ks \in SeqsUpTo(Keys, MaxLen) : \A i, j \in 1..Len(ks) : ks[i] = ks[j] => i = j}
JsonValues ==
  Scalars
  \cup {Arr(a) : a \in SeqsUpTo(Elems, MaxLen)}
  \cup UNION {{Obj([i \in 1..Len(ks) |-> <<ks[i], vs[i]>>]) : vs \in [1..Len(ks) -> Elems]} :
              ks \in KeySeqs}

\* The prototypes handed to fromJSON.
Protos == {"Rectangle.prototype", "Object.prototype"}

\* JSON text, as the sequence of its lexical tokens.
Tok(k, s) == [k |-> k, s |-> s]
Punct(s) == Tok("punct", s)

\* Number::toString and its inverse on the numbers serialized.
NumberToString(n) == CASE n = 0 -> "0" [] n = 1 -> "1" [] n = 2 -> "2"
StringToNumber(s) == CASE s = "0" -> 0 [] s = "1" -> 1 [] s = "2" -> 2

\* JSON.stringify
RECURSIVE JSON_stringify(_), SerializeItems(_), SerializeMembers(_)
JSON_stringify(x) ==
  CASE x.t = "null" -> <<Tok("lit", "null")>>
    [] x.t = "boolean" -> <<Tok("lit", IF x.v THEN "true" ELSE "false")>>
    [] x.t = "number" -> <<Tok("num", NumberToString(x.v))>>
    [] x.t = "string" -> <<Tok("str", x.v)>>
    [] x.t = "array" -> <<Punct("[")>> \o SerializeItems(x.v) \o <<Punct("]")>>
    [] x.t = "object" -> <<Punct("{")>> \o SerializeMembers(x.v) \o <<Punct("}")>>
SerializeItems(a) ==
  IF a = <<>> THEN <<>>
  ELSE JSON_stringify(Head(a))
       \o (IF Tail(a) = <<>> THEN <<>> ELSE <<Punct(",")>> \o SerializeItems(Tail(a)))
SerializeMembers(props) ==
  IF props = <<>> THEN <<>>
  ELSE <<Tok("str", Head(props)[1]), Punct(":")>> \o JSON_stringify(Head(props)[2])
       \o (IF Tail(props) = <<>> THEN <<>> ELSE <<Punct(",")>> \o SerializeMembers(Tail(props)))

\* JSON.parse: the value read from the front of the tokens and the tokens left,
\* or ok FALSE where the tokens start no value.
Parsed(val, rest) == [ok |-> TRUE, val |-> val, rest |-> rest]
NoParse == [ok |-> FALSE, val |-> Null, rest |-> <<>>]
RECURSIVE ParseValue(_), ParseItems(_, _), ParseMembers(_, _)
ParseValue(ts) ==
  IF ts = <<>> THEN NoParse
  ELSE LET h == Head(ts)
           r == Tail(ts)
       IN CASE h = Tok("lit", "null") -> Parsed(Null, r)
            [] h = Tok("lit", "true") -> Parsed(Bool(TRUE), r)
            [] h = Tok("lit", "false") -> Parsed(Bool(FALSE), r)
            [] h.k = "num" -> Parsed(Num(StringToNumber(h.s)), r)
            [] h.k = "str" -> Parsed(Str(h.s), r)
            [] h = Punct("[") ->
                 IF r # <<>> /\ Head(r) = Punct("]") THEN Parsed(Arr(<<>>), Tail(r))
                 ELSE ParseItems(r, <<>>)
            [] h = Punct("{") ->
                 IF r # <<>> /\ Head(r) = Punct("}") THEN Parsed(Obj(<<>>), Tail(r))
                 ELSE ParseMembers(r, <<>>)
            [] OTHER -> NoParse
ParseItems(ts, acc) ==
  LET e == ParseValue(ts) IN
  IF ~e.ok \/ e.rest = <<>> THEN NoParse
  ELSE IF Head(e.rest) = Punct(",") THEN ParseItems(Tail(e.rest), Append(acc, e.val))
  ELSE IF Head(e.rest) = Punct("]") THEN Parsed(Arr(Append(acc, e.val)), Tail(e.rest))
  ELSE NoParse
ParseMembers(ts, acc) ==
  IF Len(ts) < 2 \/ ts[1].k # "str" \/ ts[2] # Punct(":") THEN NoParse
  ELSE LET e == ParseValue(Tail(Tail(ts))) IN
       IF ~e.ok \/ e.rest = <<>> THEN NoParse
       ELSE IF Head(e.rest) = Punct(",")
            THEN ParseMembers(Tail(e.rest), Append(acc, <<ts[1].s, e.val>>))
       ELSE IF Head(e.rest) = Punct("}")
            THEN Parsed(Obj(Append(acc, <<ts[1].s, e.val>>)), Tail(e.rest))
       ELSE NoParse

\* The outcome of a call: the value returned, the prototype set on it ("" where
\* none was set), and the name of the error thrown ("" when it returned).
Outcome(val, proto, thrown) == [t |-> "outcome", v |-> val, proto |-> proto, thrown |-> thrown]

JSON_parse(text) ==
  LET p == ParseValue(text) IN
  IF p.ok /\ p.rest = <<>> THEN Outcome(p.val, "", "") ELSE Outcome(Null, "", "SyntaxError")

\* Object.setPrototypeOf(O, proto): a TypeError for null (RequireObjectCoercible),
\* nothing done for the other primitives, the prototype set on an object or array.
Object_setPrototypeOf(O, proto) ==
  IF O.t = "null" THEN Outcome(O, "", "TypeError")
  ELSE IF O.t \notin {"object", "array"} THEN Outcome(O, "", "")
  ELSE Outcome(O, proto, "")

getJSON(obj) == JSON_stringify(obj)

fromJSON(proto, json) ==
  LET obj == JSON_parse(json) IN
  IF obj.thrown # "" THEN obj ELSE Object_setPrototypeOf(obj.v, proto)

\* Texts that are not JSON.
Malformed == {<<>>, <<Punct("[")>>, <<Punct("{"), Tok("str", "k"), Punct("}")>>,
              <<Tok("num", "1"), Tok("num", "1")>>}

\* getJSON(obj); hist keeps the value serialized.
Call_getJSON(obj) ==
  /\ ret' = [t |-> "json", v |-> getJSON(obj)]
  /\ hist' = <<obj>>
  /\ UNCHANGED heap

\* fromJSON(proto, json); hist keeps the value json was serialized from, if any.
Call_fromJSON(proto, json) ==
  /\ ret' = fromJSON(proto, json)
  /\ hist' = IF ret.t = "json" /\ json = ret.v THEN hist ELSE <<>>
  /\ UNCHANGED heap

\* A caller serializing values, and reading back the text just produced or a
\* text that is not JSON.
JsonNext ==
  \/ \E obj \in JsonValues : Call_getJSON(obj)
  \/ \E proto \in Protos : ret.t = "json" /\ Call_fromJSON(proto, ret.v)
  \/ \E proto \in Protos, json \in Malformed : Call_fromJSON(proto, json)

JsonSpec == Init /\ [][JsonNext]_vars

-----------------------------------------------------------------------------
(* the vocabulary of the claims *)

Kinds == {"element", "id", "class", "attr", "pseudoClass", "pseudoElement"}
Singletons == {"element", "id", "pseudoElement"}

\* The rank of a kind in the fixed order element, id, class, attr,
\* pseudoClass, pseudoElement; the sentinel "before all categories" ranks below.
Rank(K) ==
  CASE K = "element" -> 0
    [] K = "id" -> 1
    [] K = "class" -> 2
    [] K = "attr" -> 3
    [] K = "pseudoClass" -> 4
    [] K = "pseudoElement" -> 5
    [] OTHER -> -1

\* The kinds added successfully to the selector with history h, and the last of them.
KindsOf(h) == {h[i][1] : i \in 1..Len(h)}
LastKind(h) == IF h = <<>> THEN "" ELSE h[Len(h)][1]
KindSeq(h) == [i \in 1..Len(h) |-> h[i][1]]

-----------------------------------------------------------------------------
\* C1: in every reachable selector state, a fragment-adding call of a kind
\* whose rank is strictly lower than the rank of the kind most recently added
\* successfully to that selector fails with the OrderViolation error.
C1_OrderViolation ==
  \A o \in Selectors, K \in Kinds, value \in Values :
    Rank(K) < Rank(LastKind(hist[o])) => Method(K, heap[o], value).thrown = OrderViolation

\* id(v).element(w) has just thrown OrderViolation.
C1_Witness ==
  /\ ret = Thrown(OrderViolation)
  /\ \E o \in Selectors : KindSeq(hist[o]) = <<"id">>

\* C2 as claimed: a call adding element, id or pseudoElement to a selector that
\* already holds a fragment of that kind, added by the previous call or by any
\* earlier one, fails with DuplicateSingletonError.
C2_AsClaimed ==
  \A o \in Selectors, K \in Singletons, value \in Values :
    K \in KindsOf(hist[o]) => Method(K, heap[o], value).thrown = DuplicateSingletonError

\* C2 amended: such a call always fails: with DuplicateSingletonError when the
\* kind is also the kind most recently added successfully, and with
\* OrderViolation when a fragment of another kind was added since.
C2_DuplicateOrOrder ==
  \A o \in Selectors, K \in Singletons, value \in Values :
    K \in KindsOf(hist[o]) =>
      Method(K, heap[o], value).thrown =
        (IF LastKind(hist[o]) = K THEN DuplicateSingletonError ELSE OrderViolation)

\* element(u).id(v).element(w) has just thrown, and thrown OrderViolation:
\* after element and id, element is the one kind that ranks below the last.
C2_Witness ==
  /\ ret = Thrown(OrderViolation)
  /\ \E o \in Selectors : KindSeq(hist[o]) = <<"element", "id">>

\* A call sequence may go on with kind K after the calls of history h.
MayFollow(h, K) ==
  /\ \A i \in 1..Len(h) : Rank(h[i][1]) <= Rank(K)
  /\ K \in Singletons => K \notin KindsOf(h)

\* C3: every call sequence that starts at the facade, has non-decreasing ranks
\* and adds each of element, id and pseudoElement at most once succeeds call
\* by call, and after each call lastElement is the kind just added.
C3_ValidSequencesSucceed ==
  /\ \A K \in Kinds, value \in Values :
       LET r == Method(K, CreateSelector, value) IN
       r.thrown = "" /\ r.this.lastElement = K
  /\ \A o \in Selectors :
       /\ heap[o].lastElement = LastKind(hist[o])
       /\ \A K \in Kinds, value \in Values :
            MayFollow(hist[o], K) =>
              LET r == Method(K, heap[o], value) IN
              r.thrown = "" /\ r.this.lastElement = K

\* element(u).id(v).class(w).class(x) has just returned the selector.
C3_Witness ==
  \E o \in Selectors :
    /\ ret = Ref(o)
    /\ KindSeq(hist[o]) = <<"element", "id", "class", "class">>

\* The values of the calls of kind K in history h, each between pre and post,
\* in call order.
RECURSIVE Decorated(_, _, _, _)
Decorated(h, K, pre, post) ==
  IF h = <<>> THEN ""
  ELSE (IF Head(h)[1] = K THEN pre \o Head(h)[2] \o post ELSE "")
         \o Decorated(Tail(h), K, pre, post)

\* The rendering the specification gives a selector built by the calls of h.
Rendering(h) ==
  Decorated(h, "element", "", "") \o Decorated(h, "id", "#", "")
    \o Decorated(h, "class", ".", "") \o Decorated(h, "attr", "[", "]")
    \o Decorated(h, "pseudoClass", ":", "") \o Decorated(h, "pseudoElement", "::", "")

\* C4: a selector built of non-empty string values renders as the
\* concatenation, in the order element, id, class, attr, pseudoClass,
\* pseudoElement, of value, #value, .value per class, [value] per attr,
\* :value per pseudoClass, ::value, each category in call order, with no
\* separators and nothing for a category without fragment.
C4_StringifyConcatenates ==
  \A o \in Selectors :
    (\A i \in 1..Len(hist[o]) : hist[o][i][2] # "") =>
      CreateSelector_stringify(heap[o]) = Rendering(hist[o])

\* id('a').class('b').class('a').stringify() has just returned '#a.b.a'.
C4_Witness ==
  /\ ret = Str("#a.b.a")
  /\ \E o \in Selectors : hist[o] = <<<<"id", "a">>, <<"class", "b">>, <<"class", "a">>>>

-----------------------------------------------------------------------------
\* The arguments of the combine call that built the combined selector c.
Made(c) == hist[c][1]

\* The selectors a combined selector is built from, through any nesting.
RECURSIVE Leaves(_)
Leaves(o) ==
  IF heap[o].type = "CreateSelector" THEN {o}
  ELSE Leaves(Made(o).s1) \cup Leaves(Made(o).s2)

\* The renderings of the selectors o was built from and, between them, the
\* tokens, each with a space on either side, left to right as constructed.
RECURSIVE Parts(_)
Parts(o) ==
  IF heap[o].type = "CreateSelector" THEN <<CreateSelector_stringify(heap[o])>>
  ELSE Parts(Made(o).s1) \o <<" ", Made(o).comb, " ">> \o Parts(Made(o).s2)

RECURSIVE Concat(_)
Concat(strs) == IF strs = <<>> THEN "" ELSE Head(strs) \o Concat(Tail(strs))

\* C5: a combined selector built by combine(left, token, right) renders as
\* left's rendering, a space, the token, a space, right's rendering, and so,
\* through any nesting, left to right exactly as constructed.
C5_CombinedRendering ==
  \A c \in Combinators :
    /\ stringify(heap, c) =
         stringify(heap, Made(c).s1) \o " " \o Made(c).comb \o " " \o stringify(heap, Made(c).s2)
    /\ stringify(heap, c) = Concat(Parts(c))

\* combine(combine(..), ' ', right).stringify() has just returned a string
\* with three spaces between the operands.
C5_Witness ==
  \E c \in Combinators :
    /\ heap[Made(c).s1].type = "Combinator"
    /\ Made(c).comb = " "
    /\ ret = Str(stringify(heap, Made(c).s1) \o "   " \o stringify(heap, Made(c).s2))

\* C6 as claimed: whatever fragment-adding calls are made on the operands after
\* combine returned, the combined selector renders as it did right after combine.
C6_AsClaimed ==
  \A c \in Combinators : stringify(heap, c) = Made(c).str

\* No fragment-adding call has succeeded since combine on a selector c is built from.
Untouched(c) == \A s \in Leaves(c) : Len(hist[s]) = Made(c).sizes[s]

\* C6 amended: the combined selector renders as it did right after combine as
\* long as no later fragment-adding call on a selector it is built from has
\* succeeded (it holds references to its operands, so a successful call shows).
C6_StableUntilOperandGrows ==
  \A c \in Combinators : Untouched(c) => stringify(heap, c) = Made(c).str

\* A fragment-adding call on the one selector a combined selector is built
\* from has just failed.
C6_Witness ==
  \E c \in Combinators :
    /\ Selectors = Leaves(c)
    /\ Cardinality(Selectors) = 1
    /\ ret.t = "throw"
    /\ Untouched(c)

\* The call o.<K>(value) as a step.
CallOf(K, o, value) ==
  CASE K = "element" -> Call_element(o, value)
    [] K = "id" -> Call_id(o, value)
    [] K = "class" -> Call_class(o, value)
    [] K = "attr" -> Call_attr(o, value)
    [] K = "pseudoClass" -> Call_pseudoClass(o, value)
    [] K = "pseudoElement" -> Call_pseudoElement(o, value)

\* The call cssSelectorBuilder.<K>(value) as a step.
FacadeOf(K, value) ==
  CASE K = "element" -> cssSelectorBuilder_element(value)
    [] K = "id" -> cssSelectorBuilder_id(value)
    [] K = "class" -> cssSelectorBuilder_class(value)
    [] K = "attr" -> cssSelectorBuilder_attr(value)
    [] K = "pseudoClass" -> cssSelectorBuilder_pseudoClass(value)
    [] K = "pseudoElement" -> cssSelectorBuilder_pseudoElement(value)

\* C7: o.stringify() leaves every object as it was, returns the string a
\* second call returns, and changes the outcome of no later fragment-adding call.
C7_StringifyReadOnly ==
  [][\A o \in Objects :
       (ret'.t = "string" /\ Call_stringify(o)) =>
         /\ heap' = heap
         /\ ret' = Str(stringify(heap', o))
         /\ \A s \in Selectors, K \in Kinds, value \in Values :
              Method(K, heap'[s], value) = Method(K, heap[s], value)]_vars

\* A combined selector has just been rendered.
C7_Witness ==
  \E c \in Combinators : ret = Str(stringify(heap, c))

\* The selector that the calls of history h build on their own.
RECURSIVE Replay(_)
Replay(h) ==
  IF h = <<>> THEN CreateSelector
  ELSE Method(h[Len(h)][1], Replay(SubSeq(h, 1, Len(h) - 1)), h[Len(h)][2]).this

\* C8: every facade call creates a new selector and leaves the others alone;
\* a call on a selector ends (returns or throws, and leaves the selector) as it
\* does when the selector's own calls are run alone, and leaves the other
\* selectors alone; a rendering is the rendering of the selector's own calls.
C8_InstancesIndependent ==
  [][/\ \A K \in Kinds, value \in Values :
          FacadeOf(K, value) =>
            /\ Len(heap') = Len(heap) + 1
            /\ ret' = Ref(Len(heap'))
            /\ heap'[Len(heap')] = Replay(<<<<K, value>>>>)
            /\ \A p \in Objects : heap'[p] = heap[p]
     /\ \A o \in Selectors, K \in Kinds, value \in Values :
          CallOf(K, o, value) =>
            LET alone == Method(K, Replay(hist[o]), value) IN
            /\ ret' = (IF alone.thrown # "" THEN Thrown(alone.thrown) ELSE Ref(o))
            /\ heap'[o] = alone.this
            /\ \A p \in Selectors \ {o} : heap'[p] = heap[p]
     /\ \A o \in Selectors :
          Call_stringify(o) =>
            /\ ret' = Str(CreateSelector_stringify(Replay(hist[o])))
            /\ heap' = heap]_vars

\* Two selectors, each with calls of its own after the other was created,
\* the second just returned by its call.
C8_Witness ==
  /\ Len(heap) = 2
  /\ Len(hist[1]) = 2 /\ Len(hist[2]) = 2
  /\ Rank(LastKind(hist[2])) < Rank(LastKind(hist[1]))
  /\ ret = Ref(2)

\* The number of calls of kind K in history h.
Count(h, K) == Cardinality({i \in 1..Len(h) : h[i][1] = K})

\* C9: each of element, id and pseudoElement is set successfully at most once
\* on a selector, and once such a field holds a value no call changes it.
C9_SingletonsSetOnce ==
  /\ [](\A o \in Selectors, K \in Singletons : Count(hist[o], K) <= 1)
  /\ [][\A o \in Selectors, K \in Singletons :
          heap[o].settings[K] # Null => heap'[o].settings[K] = heap[o].settings[K]]_vars

\* element('a').element(w) has just failed, element still holding 'a'.
C9_Witness ==
  \E o \in Selectors :
    /\ hist[o] = <<<<"element", "a">>>>
    /\ heap[o].settings.element = Str("a")
    /\ ret = Thrown(DuplicateSingletonError)

\* The CSS combinators.
CssCombinators == {" ", "+", "~", ">"}

\* C10 as claimed: every combined selector's token is one of ' ', '+', '~', '>'.
C10_AsClaimed ==
  \A c \in Combinators : heap[c].selectors.comb \in CssCombinators

\* C10 amended: a combined selector holds the token combine was given,
\* unchecked; so its token is one of ' ', '+', '~', '>' whenever the caller
\* passed one of them.
C10_TokenAsGiven ==
  \A c \in Combinators :
    /\ heap[c].selectors.comb = Made(c).comb
    /\ Made(c).comb \in CssCombinators => heap[c].selectors.comb \in CssCombinators

\* combine(left, '+', right) has just returned a combined selector.
C10_Witness ==
  \E c \in Combinators : ret = Ref(c) /\ heap[c].selectors.comb = "+"

-----------------------------------------------------------------------------
\* The selector holding the one fragment value of kind K and nothing else.
OneFragment(K, value) ==
  [type |-> "CreateSelector",
   settings |-> [element |-> IF K = "element" THEN Str(value) ELSE Null,
                 id |-> IF K = "id" THEN Str(value) ELSE Null,
                 class |-> IF K = "class" THEN Arr(<<value>>) ELSE Arr(<<>>),
                 attr |-> IF K = "attr" THEN Arr(<<value>>) ELSE Arr(<<>>),
                 pseudoClass |-> IF K = "pseudoClass" THEN Arr(<<value>>) ELSE Arr(<<>>),
                 pseudoElement |-> IF K = "pseudoElement" THEN Str(value) ELSE Null],
   lastElement |-> K]

\* C11: the facade method of every kind succeeds for every value, and returns
\* a selector that did not exist before, holding that one fragment, every
\* other category empty, and that kind as the kind added last.
C11_FacadeCreatesOneFragment ==
  /\ [](\A K \in Kinds, value \in Values : Method(K, CreateSelector, value).thrown = "")
  /\ [][\A K \in Kinds, value \in Values :
          FacadeOf(K, value) =>
            /\ ret'.t = "ref"
            /\ ret'.v \notin Objects
            /\ ret'.v \in 1..Len(heap')
            /\ heap'[ret'.v] = OneFragment(K, value)]_vars

\* cssSelectorBuilder.pseudoElement('a') has just returned its selector.
C11_Witness ==
  /\ Len(heap) = 1
  /\ ret = Ref(1)
  /\ hist[1] = <<<<"pseudoElement", "a">>>>
  /\ heap[1] = OneFragment("pseudoElement", "a")

\* C12: a fragment-adding call that succeeds returns the selector it was
\* called on, creates no object, and leaves on that selector the fragments
\* of all its successful calls.
C12_ReturnsSameInstance ==
  [][\A o \in Selectors, K \in Kinds, value \in PairValues :
       (ret'.t = "ref" /\ CallOf(K, o, value)) =>
         /\ ret' = Ref(o)
         /\ Len(heap') = Len(heap)
         /\ hist'[o] = Append(hist[o], <<K, value>>)
         /\ heap'[o] = Replay(hist'[o])]_vars

\* The first of two selectors has just returned itself from its third call.
C12_Witness ==
  /\ Len(heap) = 2
  /\ ret = Ref(1)
  /\ Len(hist[1]) = 3
  /\ heap[1] = Replay(hist[1])

\* C13: fromJSON(behavior, getJSON(x)) returns, for every JSON value x (null,
\* the booleans, numbers, strings, arrays and objects) and every behavior
\* object, without an error a value whose data fields are those of x.
C13_RoundTrip ==
  (ret.t = "outcome" /\ hist # <<>>) => (ret.thrown = "" /\ ret.v = hist[1])

\* C14: on every reachable selector a call of kind K throws the duplicate
\* Error exactly when K is element, id or pseudoElement and K is the kind
\* added last; a call of class, attr or pseudoClass repeating the kind added
\* last returns.
C14_DuplicateExactly ==
  \A o \in Selectors, K \in Kinds, value \in Values :
    LET thrown == Method(K, heap[o], value).thrown IN
    /\ (thrown = DuplicateSingletonError) <=> (K \in Singletons /\ K = LastKind(hist[o]))
    /\ (K \notin Singletons /\ K = LastKind(hist[o])) => thrown = ""

\* id('a').id('b') has just thrown the duplicate Error.
C14_Witness ==
  \E o \in Selectors :
    /\ hist[o] = <<<<"id", "a">>>>
    /\ ret = Thrown(DuplicateSingletonError)
    /\ Method("id", heap[o], "b").thrown = DuplicateSingletonError

\* C15: a selector renders, for every category a fragment was added to and
\* whatever the value added, that category's decorated contribution: '#' for
\* id(''), '::' for pseudoElement(''), '' for element(''), as '.' for
\* class(''), '[]' for attr('') and ':' for pseudoClass('').
C15_DecoratedWhateverTheValue ==
  \A o \in Selectors : CreateSelector_stringify(heap[o]) = Rendering(hist[o])

-----------------------------------------------------------------------------
\* C16: a call of class, attr or pseudoClass that succeeds puts its value at
\* the end of that category's sequence, the earlier entries kept in order; a
\* call of element, id or pseudoElement that succeeds sets that field; either
\* leaves every other category as it was and records its kind in lastElement.
C16_OnlyOwnCategory ==
  [][\A o \in Selectors, K \in Kinds, value \in Values :
       (ret'.t = "ref" /\ CallOf(K, o, value)) =>
         /\ \A F \in Kinds \ {K} : heap'[o].settings[F] = heap[o].settings[F]
         /\ K \notin Singletons =>
              heap'[o].settings[K] = Arr(heap[o].settings[K].v \o <<value>>)
         /\ K \in Singletons => heap'[o].settings[K] = Str(value)
         /\ heap'[o].lastElement = K
         /\ \A p \in Objects \ {o} : heap'[p] = heap[p]]_vars

\* id('b').class('a').class('b') has just returned, class holding a then b.
C16_Witness ==
  \E o \in Selectors :
    /\ ret = Ref(o)
    /\ hist[o] = <<<<"id", "b">>, <<"class", "a">>, <<"class", "b">>>>
    /\ heap[o].settings.class = Arr(<<"a", "b">>)
    /\ heap[o].settings.id = Str("b")

\* C17: a fragment-adding call that throws, either Error, leaves the selector
\* as it was, all six categories and lastElement: the rendering after it is
\* the rendering before it, and every call ends after it as it would have
\* ended before it.
C17_FailedCallChangesNothing ==
  [][\A o \in Selectors :
       (ret'.t = "throw" /\ \E K \in Kinds, value \in PairValues : CallOf(K, o, value)) =>
         /\ heap'[o] = heap[o]
         /\ heap' = heap
         /\ CreateSelector_stringify(heap'[o]) = CreateSelector_stringify(heap[o])
         /\ \A K2 \in Kinds, v2 \in PairValues :
              Method(K2, heap'[o], v2) = Method(K2, heap[o], v2)]_vars

\* A call on a selector of three fragments has just thrown the order Error,
\* the selector being what its three calls built.
C17_Witness ==
  \E o \in Selectors :
    /\ Len(hist[o]) = 3
    /\ ret = Thrown(OrderViolation)
    /\ heap[o] = Replay(hist[o])

\* Category K of selector s holds a fragment.
Holds(s, K) == IF K \in Singletons THEN s.settings[K] # Null ELSE s.settings[K].v # <<>>

\* C18: on every selector the kind in lastElement is a category holding a
\* fragment, every category ranked above it is empty, and no step lowers its rank.
C18_LastKindIsHighest ==
  /\ [](\A o \in Selectors :
          /\ heap[o].lastElement \in Kinds
          /\ Holds(heap[o], heap[o].lastElement)
          /\ \A K \in Kinds : Rank(K) > Rank(heap[o].lastElement) => ~Holds(heap[o], K))
  /\ [][\A o \in Selectors :
          Rank(heap'[o].lastElement) >= Rank(heap[o].lastElement)]_vars

\* id(u).attr(v).attr(w) has just returned, attr the kind added last.
C18_Witness ==
  \E o \in Selectors :
    /\ ret = Ref(o)
    /\ KindSeq(hist[o]) = <<"id", "attr", "attr">>
    /\ heap[o].lastElement = "attr"

====
